---- MODULE Spec2Model ----
(***************************************************************************)
(* Model of the render ingestion, versioning, composite and promotion      *)
(* pipeline of vray-ps-vr (vray_script_setup.py, ps_macros.py,             *)
(* file_manager.py).                                                       *)
(*                                                                         *)
(* Three specifications share this module:                                 *)
(*   SpecAlloc  render_scene: allocation and creation of batch directories *)
(*   SpecPsd    create_new_psd / update_all_smartlayer on the psds folder  *)
(*   SpecPromo  _create_vrtour_to_remote / _update_vrtour_on_remote        *)
(* File and directory names are sequences of character codes, so that the  *)
(* code's string sort and its indexing of a name are computed as Python    *)
(* computes them.                                                          *)
(***************************************************************************)
EXTENDS Integers, Sequences, FiniteSets, TLC

VARIABLES
    \* ---- vray_script_setup.py
    day,        \* the clock: number of days since the first day of the model
    dirs,       \* names of the directories under <BASE>/<carrier>/renderings
    lastAlloc,  \* what the last render_scene call saw and did
    \* ---- ps_macros.py
    psds,       \* <BASE>/<carrier>/psds: base-name key -> artifact or NoFile
    jpgs,       \* <BASE>/<carrier>/psds/JPEG: keys that have a flattened preview
    psLast,     \* what the last create_new_psd / update_all_smartlayer call did
    \* ---- file_manager.py, vtour promotion
    pc,         \* position of the promotion run
    flow,       \* "create" | "update" | "none"
    gen,        \* number of promotion runs started (names the built content)
    tmp,        \* the TemporaryDirectory of the run: "none" | "staged" | "built"
    buildExit,  \* exit status of krpanotools in this run, -1 before it ran
    vtour,      \* <BASE>/<carrier>/vtour: [files, panos, backup]
    combined,   \* <BASE>/COMBINED/vtour/panos_<carrier>
    promoLast,  \* what the last step of the promotion run saw and did
    \* ---- file_manager.py, _get_rendered_imgs
    rend,       \* <BASE>/<carrier>/renderings: [exists, batches: name -> entries]
    scan,       \* what the last _get_rendered_imgs call returned or raised
    \* ---- file_manager.py, main with --create images
    bRend,      \* carrier -> the mapping _get_rendered_imgs returns for it
    bBg,        \* the mapping _get_rendered_imgs returns for BACKGROUNDS
    bPsds,      \* carrier -> keys that have <BASE>/<carrier>/psds/<key>.psd
    bpc,        \* position of main: "carrier" | "assets" | "done" | "crashed"
    bCarr,      \* index of the carrier in carrier_list
    bTodo,      \* keys of renderings.items() not visited yet
    calls       \* the create_new_psd calls of the run, in order

varsAlloc == <<day, dirs, lastAlloc>>
varsPsd   == <<psds, jpgs, psLast>>
varsPromo == <<pc, flow, gen, tmp, buildExit, vtour, combined, promoLast>>
varsScan  == <<rend, scan>>
varsBatch == <<bRend, bBg, bPsds, bpc, bCarr, bTodo, calls>>
vars      == <<varsAlloc, varsPsd, varsPromo, varsScan, varsBatch>>

(***************************************************************************)
(* Bounds                                                                  *)
(***************************************************************************)
MaxDay  == 1    \* the clock advances at most this many days
MaxDirs == 11   \* render_scene is started while at most this many batch directories exist
MaxRuns == 3    \* promotion runs started
MaxEntries == 3 \* entries in the latest batch directory

(***************************************************************************)
(* Strings as sequences of character codes                                 *)
(***************************************************************************)
\* ord('0') + d, the character of the decimal digit d
Digit(d) == 48 + d

\* 'v'
VChar == <<118>>

\* str(n) for a non-negative integer
RECURSIVE Str(_)
Str(n) == IF n < 10 THEN <<Digit(n)>> ELSE Str(n \div 10) \o <<Digit(n % 10)>>

\* "%02d"
Pad2(n) == <<Digit(n \div 10), Digit(n % 10)>>

\* Python's str < str: code point by code point, a proper prefix is smaller
RECURSIVE LexLess(_, _)
LexLess(a, b) ==
    IF b = <<>> THEN FALSE
    ELSE IF a = <<>> THEN TRUE
    ELSE IF Head(a) # Head(b) THEN Head(a) < Head(b)
    ELSE LexLess(Tail(a), Tail(b))

(***************************************************************************)
(* vray_script_setup.py                                                    *)
(***************************************************************************)
NoStr == <<>>

\* datetime.now().strftime("%y%m%d"); the model's clock starts on 2024-12-30
GetDateFormatted(d) ==
    IF 30 + d <= 31 THEN Pad2(24) \o Pad2(12) \o Pad2(30 + d)
    ELSE Pad2(25) \o Pad2(1) \o Pad2(d - 1)

\* ''.join((current_date, 'v', str(index)))
OutDir(date, index) == date \o VChar \o Str(index)

\* entry_list.sort(reverse=True); entry_list[0]   ('' when there is no directory)
GetLatestEntry(ds) ==
    IF ds = {} THEN NoStr
    ELSE CHOOSE m \in ds : \A o \in ds : o = m \/ LexLess(o, m)

\* int(c) of a digit character
IntOfChar(c) == c - 48

\* int(latest_dir[7]) + 1: the one character at Python index 7
DetermineVersionNumber(ds) == IntOfChar(GetLatestEntry(ds)[8]) + 1

\* the directory name _get_output_path resolves to; '' without a valid carrier
GetOutputPath(ds, date, carrierOk) ==
    IF ~carrierOk THEN NoStr
    ELSE IF OutDir(date, 0) \in ds
         THEN OutDir(date, DetermineVersionNumber(ds))
         ELSE OutDir(date, 0)

NoAlloc == [before |-> {}, date |-> NoStr, out |-> NoStr, status |-> "none"]

InitAlloc ==
    /\ day = 0
    /\ dirs = {}
    /\ lastAlloc = NoAlloc

\* render_scene: resolve the path, os.mkdir it (FileExistsError when it exists)
RenderScene ==
    /\ Cardinality(dirs) <= MaxDirs
    /\ \E carrierOk \in BOOLEAN :
         LET date == GetDateFormatted(day)
             path == GetOutputPath(dirs, date, carrierOk)
         IN  /\ dirs' = IF path = NoStr THEN dirs ELSE dirs \cup {path}
             /\ lastAlloc' = [before |-> dirs, date |-> date, out |-> path,
                              status |-> IF path = NoStr THEN "no carrier"
                                         ELSE IF path \in dirs THEN "FileExistsError"
                                         ELSE "ok"]
    /\ UNCHANGED day

\* the date changes between two runs of the script
NextDay ==
    /\ day < MaxDay
    /\ day' = day + 1
    /\ UNCHANGED <<dirs, lastAlloc>>

(***************************************************************************)
(* ps_macros.py                                                            *)
(*                                                                         *)
(* An asset (img_layers) is a dict role -> DirEntry: a function from a     *)
(* subset of Roles to the batch of the file it refers to.  The .path of    *)
(* the entry of role r in asset a is <<r, a[r]>>.  An artifact is the      *)
(* sequence of its layer groups, each with the sequence of its layers, in  *)
(* the order in which they were added.  Document.SaveAs(output_path) is    *)
(* taken to write <output_path>/<document name>.psd, the file the guard of *)
(* create_new_psd looks for.                                               *)
(***************************************************************************)
Keys  == {"door"}
Roles == {"base", "Ambient_Occlusion", "Glare"}
LAYER == {"Ambient_Occlusion", "Glare"}

\* the batch directory a file lies in: two batches of the carrier's renderings,
\* and the latest batch of the BACKGROUNDS pool
Files   == {"v0", "v1"}
BgFiles == {"bg"}

Assets   == UNION {[rs -> Files] : rs \in SUBSET Roles}
BgAssets == UNION {[rs -> BgFiles] : rs \in SUBSET Roles}

NoFile == <<>>     \* no such file: an artifact has at least one group
Path(role, file) == <<role, file>>

PS_BLEND_MODE_MULTIPLY == 5
PS_BLEND_MODE_SCREEN   == 9

Layer(name, src, blend, opacity) ==
    [name |-> name, src |-> src, blend |-> blend, opacity |-> opacity]

\* _prepare_photoshop: the application object, or None on com_error
PreparePhotoshop(editorUp) == editorUp

\* os.path.isfile(output_file), output_file = <output_path>/<filename>.psd
IsFileNever(key) == FALSE
IsFile(key) == psds[key] # NoFile

\* _insert_render_stack up to its return statement: the group it adds
RenderStack(img_layers, groupname) ==
    [name   |-> groupname,
     \* the base layer keeps the editor's defaults: blend mode not set (0), opaque
     layers |-> <<Layer("base", Path("base", img_layers["base"]), 0, 100)>>
                \o (IF "Ambient_Occlusion" \in DOMAIN img_layers
                    THEN <<Layer("ambient",
                                 Path("Ambient_Occlusion", img_layers["Ambient_Occlusion"]),
                                 PS_BLEND_MODE_MULTIPLY, 70)>>
                    ELSE <<>>)
                \o (IF "Glare" \in DOMAIN img_layers
                    THEN <<Layer("glare", Path("Glare", img_layers["Glare"]),
                                 PS_BLEND_MODE_SCREEN, 40)>>
                    ELSE <<>>)]

\* how _insert_render_stack ends: img_layers['base'] raises KeyError without a
\* base entry; the return statement reads ambient_layer and glare_layer, which
\* are bound only when the overlay is present
InsertOutcome(img_layers) ==
    IF "base" \notin DOMAIN img_layers THEN "KeyError"
    ELSE IF "Ambient_Occlusion" \notin DOMAIN img_layers
            \/ "Glare" \notin DOMAIN img_layers THEN "UnboundLocalError"
    ELSE "ok"

\* how create_new_psd ends; exists: os.path.isfile(output_file)
CreateOutcomeAt(exists, img_layers, bg_layers, editorUp) ==
    IF ~PreparePhotoshop(editorUp) THEN "false"
    ELSE IF "base" \notin DOMAIN img_layers THEN "KeyError"
    ELSE IF exists THEN "false"
    ELSE IF DOMAIN bg_layers # {} /\ InsertOutcome(bg_layers) # "ok"
         THEN InsertOutcome(bg_layers)
    ELSE IF InsertOutcome(img_layers) # "ok" THEN InsertOutcome(img_layers)
    ELSE "true"

\* how create_new_psd ends for the artifact of key
CreateOutcome(key, img_layers, bg_layers, editorUp) ==
    CreateOutcomeAt(IsFile(key), img_layers, bg_layers, editorUp)

\* the document create_new_psd saves: background group first, when given
NewDocument(img_layers, bg_layers) ==
    (IF DOMAIN bg_layers # {} THEN <<RenderStack(bg_layers, "background")>> ELSE <<>>)
    \o <<RenderStack(img_layers, "content")>>

\* whether create_new_psd has a document open when it ends this way
DocCreated(key, img_layers, editorUp, outcome) ==
    /\ PreparePhotoshop(editorUp)
    /\ "base" \in DOMAIN img_layers
    /\ ~IsFile(key)
    /\ outcome # "false"

NoOp == [op |-> "none", key |-> "", group |-> "", asset |-> <<>>, bg |-> <<>>,
         editorUp |-> FALSE,
         pre |-> NoFile, preJpgs |-> {}, result |-> "none", rebound |-> {},
         saved |-> FALSE, exported |-> FALSE,
         opened |-> FALSE, closed |-> FALSE]

InitPsd ==
    /\ psds = [k \in Keys |-> NoFile]
    /\ jpgs = {}
    /\ psLast = NoOp

\* bg_layers is read only after the guards: on the paths that end before, one
\* value (None) stands for all
BgRead(key, img_layers, editorUp) ==
    IF PreparePhotoshop(editorUp) /\ "base" \in DOMAIN img_layers /\ ~IsFile(key)
    THEN BgAssets
    ELSE {<<>>}

\* create_new_psd(img_layers, output_path, log, bg_layers)
CreateNewPsd ==
    \E key \in Keys, img_layers \in Assets, editorUp \in BOOLEAN :
    \E bg_layers \in BgRead(key, img_layers, editorUp) :
       LET outcome == CreateOutcome(key, img_layers, bg_layers, editorUp)
           opened  == DocCreated(key, img_layers, editorUp, outcome)
       IN  /\ psds' = IF outcome = "true"
                      THEN [psds EXCEPT ![key] = NewDocument(img_layers, bg_layers)]
                      ELSE psds
           /\ jpgs' = IF outcome = "true" THEN jpgs \cup {key} ELSE jpgs
           /\ psLast' = [op |-> "create", key |-> key, group |-> "content",
                         asset |-> img_layers, bg |-> bg_layers,
                         editorUp |-> editorUp,
                         pre |-> psds[key], preJpgs |-> jpgs, result |-> outcome,
                         rebound |-> {}, saved |-> outcome = "true",
                         exported |-> outcome = "true", opened |-> opened,
                         closed |-> opened /\ outcome = "true"]

\* the role update_all_smartlayer reads for a layer name; "" for any other name
RoleOfLayer(name) ==
    CASE name = "base"    -> "base"
      [] name = "glare"   -> "Glare"
      [] name = "ambient" -> "Ambient_Occlusion"
      [] OTHER            -> ""

\* for ls in doc.LayerSets: if ls.Name == group_to_find: the index of the
\* first group of that name, 0 when there is none
FindGroupOrFirst(doc, group_to_find) == 1
FindGroup(doc, group_to_find) ==
    IF \E i \in 1..Len(doc) : doc[i].name = group_to_find
    THEN CHOOSE i \in 1..Len(doc) :
            /\ doc[i].name = group_to_find
            /\ \A j \in 1..(i - 1) : doc[j].name # group_to_find
    ELSE 0

\* the layers of a group whose role the asset lacks: img_layers[...] raises
\* KeyError when the loop comes to one of them
Unmatched(group, img_layers) ==
    {i \in 1..Len(group.layers) :
        /\ RoleOfLayer(group.layers[i].name) # ""
        /\ RoleOfLayer(group.layers[i].name) \notin DOMAIN img_layers}

\* _replace_image_smart_layer on the active layer
ReplaceAllWithBase(layer, img_layers) ==
    [layer EXCEPT !.src = Path("base", img_layers["base"])]
ReplaceImageSmartLayer(layer, img_layers) ==
    IF RoleOfLayer(layer.name) = "" THEN layer
    ELSE [layer EXCEPT !.src = Path(RoleOfLayer(layer.name),
                                    img_layers[RoleOfLayer(layer.name)])]

\* the loop over group.ArtLayers, when no lookup fails
UpdatedGroup(group, img_layers) ==
    [group EXCEPT !.layers =
        [i \in 1..Len(group.layers) |-> ReplaceImageSmartLayer(group.layers[i], img_layers)]]

\* update_all_smartlayer(psd_file, img_layers, log, background)
UpdateAllSmartlayer ==
    \E key \in Keys, img_layers \in Assets, background \in BOOLEAN, editorUp \in BOOLEAN :
       LET doc           == psds[key]
           group_to_find == IF background THEN "background" ELSE "content"
           g             == FindGroup(doc, group_to_find)
           last(result, rebound, saved, opened, closed) ==
               [op |-> "update", key |-> key, group |-> group_to_find,
                asset |-> img_layers, bg |-> <<>>, editorUp |-> editorUp,
                pre |-> doc, preJpgs |-> jpgs, result |-> result,
                rebound |-> rebound, saved |-> saved, exported |-> saved,
                opened |-> opened, closed |-> closed]
       IN  /\ IsFile(key)       \* psd_file is an entry _get_psds found
           /\ IF ~PreparePhotoshop(editorUp)
              THEN /\ psLast' = last("false", {}, FALSE, FALSE, FALSE)
                   /\ UNCHANGED <<psds, jpgs>>
              ELSE IF g = 0
              THEN \* doc.Close(); return False
                   /\ psLast' = last("false", {}, FALSE, TRUE, TRUE)
                   /\ UNCHANGED <<psds, jpgs>>
              ELSE IF Unmatched(doc[g], img_layers) # {}
              THEN \* KeyError leaves the loop: the layers the loop came to before
                   \* (in the editor's own order) are rebound in the open document,
                   \* nothing is saved, the document is not closed
                   /\ \E done \in SUBSET {doc[g].layers[i].name :
                                            i \in (1..Len(doc[g].layers))
                                                  \ Unmatched(doc[g], img_layers)} :
                         psLast' = last("KeyError", done, FALSE, TRUE, FALSE)
                   /\ UNCHANGED <<psds, jpgs>>
              ELSE \* doc.Save(); _save_as_jpg; doc.Close(); return True
                   /\ psds' = [psds EXCEPT ![key] =
                                 [doc EXCEPT ![g] = UpdatedGroup(doc[g], img_layers)]]
                   /\ jpgs' = jpgs \cup {key}
                   /\ psLast' = last("true",
                                     {doc[g].layers[i].name : i \in
                                        {j \in 1..Len(doc[g].layers) :
                                           RoleOfLayer(doc[g].layers[j].name) # ""}},
                                     TRUE, TRUE, TRUE)

NextPsd ==
    \/ CreateNewPsd /\ UNCHANGED <<varsAlloc, varsPromo, varsScan, varsBatch>>
    \/ UpdateAllSmartlayer /\ UNCHANGED <<varsAlloc, varsPromo, varsScan, varsBatch>>

(***************************************************************************)
(* file_manager.py: promotion of a tour to the remote store                *)
(*                                                                         *)
(* A directory is [exists, items]; its items are numbers: n > 0 is content *)
(* built by promotion run n, 0 is a file that some other user of the       *)
(* shared store put there.  <carrier>/vtour always exists; it holds the    *)
(* tour's own files and the subdirectories panos and panos_backup.         *)
(***************************************************************************)
NoDir      == [exists |-> FALSE, items |-> {}]
Dir(items) == [exists |-> TRUE, items |-> items]

Remote == [vtour |-> vtour, combined |-> combined]

\* os.listdir(vtour) is non-empty
VtourNonEmpty(v) == v.files # {} \/ v.panos.exists \/ v.backup.exists

\* os.listdir(d) is non-empty
NeverNonEmpty(d) == FALSE
DirNonEmpty(d) == d.items # {}

\* shutil.copytree(src, dst, dirs_exist_ok=True) into an existing directory
CopyTree(srcItems, dst) == Dir(dst.items \cup srcItems)

\* what krpanotools built in the TemporaryDirectory of run n: vtour/ and vtour/panos/
BuiltItems(n) == {n}

\* the answers the operator can type at "Do you want to delete the backup? (Y/N): "
EOF == "<EOF>"     \* standard input is closed: input() raises EOFError
Responses == {"y", "Y", "n", "N", "", "yes", "no", EOF}

\* str.lower() on these answers
Lower(s) ==
    CASE s = "Y"   -> "y"
      [] s = "N"   -> "n"
      [] OTHER     -> s

\* input(...) or 'y'
Answer(resp) == IF resp = "" THEN "y" ELSE resp

NoStep == [step |-> "none", pre |-> [vtour |-> [files |-> {}, panos |-> NoDir, backup |-> NoDir],
                                     combined |-> Dir({})],
           outcome |-> "none", resp |-> "none", copy |-> "none", live0 |-> NoDir]

\* live0 is the panos directory as the run found it, kept for the whole run
Last(step, outcome, resp, copy) ==
    [step |-> step, pre |-> Remote, outcome |-> outcome, resp |-> resp, copy |-> copy,
     live0 |-> promoLast.live0]

InitPromo ==
    /\ pc = "Idle"
    /\ flow = "none"
    /\ gen = 0
    /\ tmp = "none"
    /\ buildExit = -1
    /\ vtour = [files |-> {}, panos |-> NoDir, backup |-> NoDir]
    /\ combined = Dir({})
    /\ promoLast = NoStep

\* main: args.create == 'vtour' or args.update == 'vtour'; _get_jpgs (Collecting)
StartRun ==
    /\ pc \in {"Idle", "Done", "Failed"}
    /\ gen < MaxRuns
    /\ \E f \in {"create", "update"} : flow' = f
    /\ gen' = gen + 1
    /\ pc' = "Staging"
    /\ tmp' = "none"
    /\ buildExit' = -1
    /\ promoLast' = [Last("StartRun", "ok", "none", "none") EXCEPT !.live0 = vtour.panos]
    /\ UNCHANGED <<vtour, combined>>

\* with tempfile.TemporaryDirectory() as tmpdir: shutil.copy2(jpg, tmpdir)
Stage ==
    /\ pc = "Staging"
    /\ tmp' = "staged"
    /\ pc' = "Building"
    /\ promoLast' = Last("Stage", "ok", "none", "none")
    /\ UNCHANGED <<flow, gen, buildExit, vtour, combined>>

\* where the run goes after subprocess.run(..., check=True) returned `exit`
AfterBuildUnchecked(exit) == IF flow = "update" THEN "BackingUp" ELSE "Copying"
AfterBuild(exit) ==
    IF exit # 0 THEN "Failed"     \* CalledProcessError leaves the with block
    ELSE IF flow = "update" THEN "BackingUp" ELSE "Copying"

\* _create_local_vrtour
Build ==
    /\ pc = "Building"
    /\ \E exit \in {0, 1} :
         /\ buildExit' = exit
         /\ pc' = AfterBuild(exit)
         /\ tmp' = IF AfterBuild(exit) = "Failed" THEN "none" ELSE "built"
         /\ promoLast' = Last("Build", IF exit = 0 THEN "ok" ELSE "CalledProcessError",
                              "none", "none")
    /\ UNCHANGED <<flow, gen, vtour, combined>>

\* the backup directory after shutil.rmtree(backup_dir) (when it exists) and
\* os.rename(remote_dir, backup_dir)
BackupMerged(panos, backup) == Dir(panos.items \cup backup.items)
BackupDiscarded(panos, backup) == Dir({})
BackupOf(panos, backup) == panos

\* _backup_panos_on_remote
BackupPanos ==
    /\ pc = "BackingUp"
    /\ IF vtour.panos.exists
       THEN /\ vtour' = [vtour EXCEPT !.backup = BackupOf(vtour.panos, vtour.backup),
                                      !.panos  = Dir({})]
            /\ pc' = "Copying"
            /\ tmp' = tmp
            /\ promoLast' = Last("BackupPanos", "ok", "none", "none")
       ELSE \* os.mkdir(remote_dir), then log.debug reads backup_dir, which is
            \* bound only when the panos directory existed
            /\ vtour' = [vtour EXCEPT !.panos = Dir({})]
            /\ pc' = "Failed"
            /\ tmp' = "none"
            /\ promoLast' = Last("BackupPanos", "UnboundLocalError", "none", "none")
    /\ UNCHANGED <<flow, gen, buildExit, combined>>

\* _copy_panos_to_remote; the run goes on to _copy_panos_to_combined
CopyPanos ==
    /\ pc = "Copying"
    /\ flow = "update"
    /\ IF DirNonEmpty(vtour.panos)
       THEN /\ promoLast' = Last("CopyPanos", "DestinationNotEmpty", "none",
                                 "DestinationNotEmpty")
            /\ UNCHANGED vtour
       ELSE /\ vtour' = [vtour EXCEPT !.panos = CopyTree(BuiltItems(gen), vtour.panos)]
            /\ promoLast' = Last("CopyPanos", "ok", "none", "ok")
    /\ pc' = "CopyingCombined"
    /\ UNCHANGED <<flow, gen, tmp, buildExit, combined>>

\* _copy_vtour_to_remote; the last step of _create_vrtour_to_remote
CopyVtour ==
    /\ pc = "Copying"
    /\ flow = "create"
    /\ IF VtourNonEmpty(vtour)
       THEN /\ promoLast' = Last("CopyVtour", "DestinationNotEmpty", "none",
                                 "DestinationNotEmpty")
            /\ UNCHANGED vtour
       ELSE /\ vtour' = [vtour EXCEPT !.files = BuiltItems(gen),
                                      !.panos = Dir(BuiltItems(gen))]
            /\ promoLast' = Last("CopyVtour", "ok", "none", "ok")
    /\ pc' = "Done"
    /\ tmp' = "none"
    /\ UNCHANGED <<flow, gen, buildExit, combined>>

\* _copy_panos_to_combined: a non-empty directory is removed and made anew
CopyCombined ==
    /\ pc = "CopyingCombined"
    /\ combined' = CopyTree(BuiltItems(gen),
                            IF DirNonEmpty(combined) THEN Dir({}) ELSE combined)
    /\ pc' = "Confirming"
    /\ promoLast' = Last("CopyCombined", "ok", "none", promoLast.copy)
    /\ UNCHANGED <<flow, gen, tmp, buildExit, vtour>>

\* delete_backup = input(...) or 'y'; shutil.rmtree(backup_path) on 'y'
Confirm ==
    /\ pc = "Confirming"
    /\ \E resp \in Responses :
         IF resp = EOF
         THEN /\ pc' = "Failed"
              /\ promoLast' = Last("Confirm", "EOFError", resp, promoLast.copy)
              /\ UNCHANGED vtour
         ELSE IF Lower(Answer(resp)) = "y"
         THEN IF vtour.backup.exists
              THEN /\ vtour' = [vtour EXCEPT !.backup = NoDir]
                   /\ pc' = "Done"
                   /\ promoLast' = Last("Confirm", "deleted", resp, promoLast.copy)
              ELSE /\ pc' = "Failed"
                   /\ promoLast' = Last("Confirm", "FileNotFoundError", resp, promoLast.copy)
                   /\ UNCHANGED vtour
         ELSE /\ pc' = "Done"
              /\ promoLast' = Last("Confirm", "kept", resp, promoLast.copy)
              /\ UNCHANGED vtour
    /\ tmp' = "none"
    /\ UNCHANGED <<flow, gen, buildExit, combined>>

\* another user of the shared store puts a file into vtour/panos: what the
\* os.listdir(remote_dir) checks before copying are there for
RemoteStoreWrite ==
    /\ vtour.panos.exists
    /\ 0 \notin vtour.panos.items
    /\ vtour' = [vtour EXCEPT !.panos = Dir(vtour.panos.items \cup {0})]
    /\ promoLast' = Last("RemoteStoreWrite", "ok", promoLast.resp, promoLast.copy)
    /\ UNCHANGED <<pc, flow, gen, tmp, buildExit, combined>>

(***************************************************************************)
(* file_manager.py: _get_latest_entry, _get_rendered_imgs                  *)
(***************************************************************************)
\* the characters of the words the file names are made of
Chars(w) ==
    CASE w = "door"  -> <<100, 111, 111, 114>>
      [] w = "win"   -> <<119, 105, 110>>
      [] w = "old"   -> <<111, 108, 100>>
      [] w = "sub"   -> <<115, 117, 98>>
      [] w = "foo"   -> <<102, 111, 111>>
      [] w = "png"   -> <<112, 110, 103>>
      [] w = "jpg"   -> <<106, 112, 103>>
      [] w = "base"  -> <<98, 97, 115, 101>>
      [] w = "Glare" -> <<71, 108, 97, 114, 101>>
      [] w = "Ambient_Occlusion" ->
             <<65, 109, 98, 105, 101, 110, 116, 95, 79, 99, 99, 108, 117, 115, 105, 111, 110>>
      [] w = ""      -> <<>>

DotStr == <<46>>    \* '.'

\* '.'.join(words)
RECURSIVE FileName(_)
FileName(ws) ==
    IF Len(ws) = 1 THEN Chars(ws[1])
    ELSE Chars(ws[1]) \o DotStr \o FileName(Tail(ws))

\* str.split('.')
RECURSIVE Split(_)
Split(s) ==
    IF \A i \in 1..Len(s) : s[i] # DotStr[1] THEN <<s>>
    ELSE LET i == CHOOSE j \in 1..Len(s) :
                     s[j] = DotStr[1] /\ \A h \in 1..(j - 1) : s[h] # DotStr[1]
         IN  <<SubSeq(s, 1, i - 1)>> \o Split(SubSeq(s, i + 1, Len(s)))

StartsWith(s, prefix) ==
    Len(s) >= Len(prefix) /\ SubSeq(s, 1, Len(prefix)) = prefix

EndsWith(s, suffix) ==
    Len(s) >= Len(suffix) /\ SubSeq(s, Len(s) - Len(suffix) + 1, Len(s)) = suffix

Entry(ws, isFile) == [name |-> FileName(ws), isFile |-> isFile]

\* the directory entries a batch directory is filled from
Entries ==
    { Entry(<<"door", "png">>, TRUE),
      Entry(<<"door", "Glare", "png">>, TRUE),
      Entry(<<"door", "Ambient_Occlusion", "png">>, TRUE),
      Entry(<<"door", "Glare", "foo", "png">>, TRUE),
      Entry(<<"door", "foo", "png">>, TRUE),
      Entry(<<"win", "png">>, TRUE),
      Entry(<<"win", "jpg">>, TRUE),
      Entry(<<"", "win", "png">>, TRUE),
      Entry(<<"sub", "png">>, FALSE) }

\* an earlier batch, left as it was
OldBatch == {Entry(<<"old", "png">>, TRUE)}

BatchNames == {OutDir(GetDateFormatted(0), 0), OutDir(GetDateFormatted(0), 1)}

NoScan == [status |-> "none", path |-> NoStr, tree |-> <<>>]

\* _get_latest_entry(carrier_path) of file_manager.py: the latest directory
\* under carrier_path, '' when there is none
LatestEntry(names) ==
    IF names = {} THEN NoStr
    ELSE CHOOSE n \in names : \A m \in names : m = n \/ LexLess(m, n)

\* one turn of the loop over os.scandir(search_path)
ClassifyEntry(file_tree, entry) ==
    IF ~StartsWith(entry.name, DotStr) /\ entry.isFile
       /\ EndsWith(entry.name, DotStr \o Chars("png"))
    THEN LET segments == Split(entry.name)
             key      == segments[1]
             tree1    == IF key \notin DOMAIN file_tree
                         THEN [k \in DOMAIN file_tree \cup {key} |->
                                  IF k = key THEN <<>> ELSE file_tree[k]]
                         ELSE file_tree
             put(role) == [tree1 EXCEPT ![key] =
                              [r \in DOMAIN tree1[key] \cup {role} |->
                                  IF r = role THEN entry.name ELSE tree1[key][r]]]
         IN  IF Len(segments) > 2 /\ segments[2] \in {Chars(l) : l \in LAYER}
             THEN put(segments[2])
             ELSE IF Len(segments) = 2
             THEN put(Chars("base"))
             ELSE tree1
    ELSE file_tree

\* the loop over the entries in the order os.scandir yields them
RECURSIVE ClassifyAll(_, _)
ClassifyAll(file_tree, order) ==
    IF order = <<>> THEN file_tree
    ELSE ClassifyAll(ClassifyEntry(file_tree, Head(order)), Tail(order))

\* the orders in which os.scandir may yield the entries of a directory
Orders(es) ==
    {o \in [1..Cardinality(es) -> es] : \A i, j \in DOMAIN o : i # j => o[i] # o[j]}

InitScan ==
    /\ rend = [exists |-> FALSE, batches |-> <<>>]
    /\ scan = NoScan

\* the renderings directory of a carrier: missing, without a batch, or with
\* one or two batches, the latest holding up to MaxEntries entries
InitRend ==
    /\ scan = NoScan
    /\ \/ rend = [exists |-> FALSE, batches |-> <<>>]
       \/ \E names \in SUBSET BatchNames, es \in SUBSET Entries :
             /\ Cardinality(es) <= MaxEntries
             /\ rend = [exists  |-> TRUE,
                        batches |-> [b \in names |->
                                        IF b = OutDir(GetDateFormatted(0), 1)
                                           \/ Cardinality(names) = 1
                                        THEN es ELSE OldBatch]]

\* _get_rendered_imgs(carrier, log)
GetRenderedImgs ==
    /\ IF ~rend.exists
       THEN \* os.scandir(carrier_path) in _get_latest_entry
            scan' = [status |-> "FileNotFoundError", path |-> NoStr, tree |-> <<>>]
       ELSE LET search_path == LatestEntry(DOMAIN rend.batches)
            IN  IF search_path = NoStr
                THEN scan' = [status |-> "ok", path |-> NoStr, tree |-> <<>>]
                ELSE \E order \in Orders(rend.batches[search_path]) :
                        scan' = [status |-> "ok", path |-> search_path,
                                 tree |-> ClassifyAll(<<>>, order)]
    /\ UNCHANGED rend

NextScan ==
    \/ GetRenderedImgs /\ UNCHANGED <<varsAlloc, varsPsd, varsPromo, varsBatch>>

(***************************************************************************)
(* file_manager.py: main, --create images for ALL carriers                 *)
(***************************************************************************)
CARRIER == <<"NAME1", "NAME2", "BACKGROUNDS", "ALL">>

\* carrier_list = CARRIER[:-2]
CarrierList == SubSeq(CARRIER, 1, Len(CARRIER) - 2)

Carriers == {CarrierList[i] : i \in DOMAIN CarrierList}

BatchKeys == {"door", "win"}

\* the values a key of the mapping can have: all three roles, the base role
\* only, no role at all
BatchAssets ==
    {[r \in rs |-> "v1"] : rs \in {Roles, {"base"}, {}}}

BatchTrees == UNION {[ks -> BatchAssets] : ks \in SUBSET BatchKeys}

\* the mapping of BACKGROUNDS: none, or a full background for one key
BatchBgs == {<<>>, [k \in {"door"} |-> [r \in Roles |-> "bg"]]}

\* backgrounds.get(file_key, None)
BgGet(backgrounds, file_key) ==
    IF file_key \in DOMAIN backgrounds THEN backgrounds[file_key] ELSE <<>>

InitBatch ==
    /\ bRend = [c \in Carriers |-> <<>>]
    /\ bBg = <<>>
    /\ bPsds = [c \in Carriers |-> {}]
    /\ bpc = "done"
    /\ bCarr = 0
    /\ bTodo = {}
    /\ calls = <<>>

\* main before the loop over carrier_list, for any latest batches and any
\* artifacts earlier runs left
InitRun ==
    /\ bRend \in [Carriers -> BatchTrees]
    /\ bBg \in BatchBgs
    /\ bPsds \in [Carriers -> SUBSET BatchKeys]
    /\ bpc = "carrier"
    /\ bCarr = 1
    /\ bTodo = {}
    /\ calls = <<>>

\* for carr in carrier_list: renderings = _get_rendered_imgs(active_carrier, log)
EnterCarrier ==
    /\ bpc = "carrier"
    /\ bCarr <= Len(CarrierList)
    /\ bTodo' = DOMAIN bRend[CarrierList[bCarr]]
    /\ bpc' = "assets"
    /\ UNCHANGED <<bRend, bBg, bPsds, bCarr, calls>>

\* why create_new_psd returned False
WhyFalse(exists, editorUp) ==
    IF ~PreparePhotoshop(editorUp) THEN "EditorUnavailable" ELSE "ArtifactExists"

\* one turn of `for file_key, file_entry in renderings.items()`
CreateNext ==
    /\ bpc = "assets"
    /\ \E file_key \in bTodo, editorUp \in BOOLEAN :
          LET carr    == CarrierList[bCarr]
              exists  == file_key \in bPsds[carr]
              bg_file == BgGet(bBg, file_key)
              status  == CreateOutcomeAt(exists, bRend[carr][file_key], bg_file, editorUp)
          IN  /\ calls' = Append(calls,
                              [carrier |-> carr, key |-> file_key, result |-> status,
                               why |-> IF status = "false"
                                       THEN WhyFalse(exists, editorUp) ELSE ""])
              /\ bPsds' = IF status = "true"
                          THEN [bPsds EXCEPT ![carr] = @ \cup {file_key}]
                          ELSE bPsds
              /\ CASE status = "true"  -> /\ bTodo' = bTodo \ {file_key}
                                          /\ bpc' = "assets"
                                          /\ bCarr' = bCarr
                   [] status = "false" -> \* break: on to the next carrier
                                          /\ bTodo' = {}
                                          /\ bpc' = "carrier"
                                          /\ bCarr' = bCarr + 1
                   [] OTHER            -> \* the exception ends main
                                          /\ bTodo' = {}
                                          /\ bpc' = "crashed"
                                          /\ bCarr' = bCarr
    /\ UNCHANGED <<bRend, bBg>>

\* renderings.items() is exhausted: log "All psd-files are created.", next carrier
LeaveAssets ==
    /\ bpc = "assets"
    /\ bTodo = {}
    /\ bpc' = "carrier"
    /\ bCarr' = bCarr + 1
    /\ UNCHANGED <<bRend, bBg, bPsds, bTodo, calls>>

\* carrier_list is exhausted: "Script finished successfully."
Finish ==
    /\ bpc = "carrier"
    /\ bCarr > Len(CarrierList)
    /\ bpc' = "done"
    /\ UNCHANGED <<bRend, bBg, bPsds, bCarr, bTodo, calls>>

NextBatch ==
    \/ EnterCarrier /\ UNCHANGED <<varsAlloc, varsPsd, varsPromo, varsScan>>
    \/ CreateNext /\ UNCHANGED <<varsAlloc, varsPsd, varsPromo, varsScan>>
    \/ LeaveAssets /\ UNCHANGED <<varsAlloc, varsPsd, varsPromo, varsScan>>
    \/ Finish /\ UNCHANGED <<varsAlloc, varsPsd, varsPromo, varsScan>>

NextPromo ==
    \/ StartRun /\ UNCHANGED <<varsAlloc, varsPsd, varsScan, varsBatch>>
    \/ Stage /\ UNCHANGED <<varsAlloc, varsPsd, varsScan, varsBatch>>
    \/ Build /\ UNCHANGED <<varsAlloc, varsPsd, varsScan, varsBatch>>
    \/ BackupPanos /\ UNCHANGED <<varsAlloc, varsPsd, varsScan, varsBatch>>
    \/ CopyPanos /\ UNCHANGED <<varsAlloc, varsPsd, varsScan, varsBatch>>
    \/ CopyVtour /\ UNCHANGED <<varsAlloc, varsPsd, varsScan, varsBatch>>
    \/ CopyCombined /\ UNCHANGED <<varsAlloc, varsPsd, varsScan, varsBatch>>
    \/ Confirm /\ UNCHANGED <<varsAlloc, varsPsd, varsScan, varsBatch>>
    \/ RemoteStoreWrite /\ UNCHANGED <<varsAlloc, varsPsd, varsScan, varsBatch>>

NextAlloc ==
    \/ RenderScene /\ UNCHANGED <<varsPsd, varsPromo, varsScan, varsBatch>>
    \/ NextDay /\ UNCHANGED <<varsPsd, varsPromo, varsScan, varsBatch>>

Init == InitAlloc /\ InitPsd /\ InitPromo /\ InitScan /\ InitBatch

SpecAlloc == Init /\ [][NextAlloc]_vars
SpecPsd   == Init /\ [][NextPsd]_vars
SpecPromo == Init /\ [][NextPromo]_vars
\* _get_rendered_imgs called for any renderings directory
InitAnyRend == InitAlloc /\ InitPsd /\ InitPromo /\ InitRend /\ InitBatch

\* main started with --create images for any latest batches
InitAnyRun == InitAlloc /\ InitPsd /\ InitPromo /\ InitScan /\ InitRun

SpecScan  == InitAnyRend /\ [][NextScan]_vars
SpecBatch == InitAnyRun /\ [][NextBatch]_vars

(***************************************************************************)
(* Properties                                                              *)
(***************************************************************************)
Max(S) == CHOOSE m \in S : \A x \in S : x <= m

\* int(s) of a string of decimal digits
RECURSIVE ParseInt(_)
ParseInt(s) ==
    IF s = <<>> THEN 0
    ELSE ParseInt(SubSeq(s, 1, Len(s) - 1)) * 10 + (s[Len(s)] - 48)

\* the version indices of the directories in ds whose name is <date>v<index>
SameDateIndices(ds, date) ==
    {ParseInt(SubSeq(n, 8, Len(n))) : n \in {m \in ds : SubSeq(m, 1, 6) = date}}

\* C1: for any existing batch directories and any date, the allocated name is
\* <today>v<k> with k = (largest existing index of that date) + 1, or 0 when
\* the date has no directory, so k is greater than every existing same-date index.
C1_MaxPlusOne ==
    lastAlloc.status \in {"ok", "FileExistsError"} =>
        LET idx == SameDateIndices(lastAlloc.before, lastAlloc.date)
            k   == IF idx = {} THEN 0 ELSE Max(idx) + 1
        IN  /\ lastAlloc.out = lastAlloc.date \o <<118>> \o Str(k)
            /\ \A i \in idx : i < k

\* C2: with the editor reachable, create_new_psd for a key whose artifact is
\* already there returns false and changes neither the artifact nor any other
\* file; a create that finds no artifact and succeeds leaves exactly the
\* document it built.  No create ever replaces an existing artifact.
C2_NoOverwrite ==
    psLast.op = "create" =>
        /\ (psLast.pre # NoFile => psds[psLast.key] = psLast.pre /\ jpgs = psLast.preJpgs)
        /\ (psLast.pre # NoFile /\ psLast.editorUp /\ "base" \in DOMAIN psLast.asset
               => psLast.result = "false" /\ ~psLast.opened /\ ~psLast.saved)
        /\ (psLast.result = "true" => psLast.pre = NoFile /\ psds[psLast.key] # NoFile)

\* C2 witness: a second create for the key of an existing artifact was refused
C2_Witness ==
    /\ psLast.op = "create"
    /\ psLast.editorUp
    /\ "base" \in DOMAIN psLast.asset
    /\ psLast.pre # NoFile
    /\ psLast.result = "false"

HasGroup(doc, name) == \E i \in 1..Len(doc) : doc[i].name = name

\* C8: update_all_smartlayer on an artifact without a group of the requested
\* name returns false, closes the document, rebinds no layer, saves nothing
\* and exports no preview.
C8_MissingGroup ==
    (psLast.op = "update" /\ psLast.editorUp /\ ~HasGroup(psLast.pre, psLast.group)) =>
        /\ psLast.result = "false"
        /\ psLast.opened /\ psLast.closed
        /\ psLast.rebound = {}
        /\ ~psLast.saved /\ ~psLast.exported
        /\ psds[psLast.key] = psLast.pre
        /\ jpgs = psLast.preJpgs

\* C8 witness: the background group was requested of an artifact that has only
\* a content group
C8_Witness ==
    /\ psLast.op = "update"
    /\ psLast.editorUp
    /\ psLast.group = "background"
    /\ Len(psLast.pre) = 1
    /\ psLast.pre[1].name = "content"
    /\ psLast.result = "false"
    /\ psLast.closed

\* the group of that name in a document that has one
GroupOf(doc, name) == doc[CHOOSE i \in 1..Len(doc) : doc[i].name = name]

LayerRole(name) ==
    IF name = "base" THEN "base"
    ELSE IF name = "glare" THEN "Glare"
    ELSE IF name = "ambient" THEN "Ambient_Occlusion"
    ELSE ""

\* C9: update_all_smartlayer on a group with a layer whose role the asset
\* lacks leaves that layer's source as it was, rebinds the layers whose role
\* the asset has, saves the artifact, closes the document and returns true.
C9_PartialOverlay ==
    (/\ psLast.op = "update"
     /\ psLast.editorUp
     /\ HasGroup(psLast.pre, psLast.group)
     /\ \E l \in 1..Len(GroupOf(psLast.pre, psLast.group).layers) :
           LayerRole(GroupOf(psLast.pre, psLast.group).layers[l].name)
               \notin DOMAIN psLast.asset)
    => LET before == GroupOf(psLast.pre, psLast.group).layers
           after  == GroupOf(psds[psLast.key], psLast.group).layers
       IN  /\ psLast.result = "true"
           /\ psLast.saved /\ psLast.closed
           /\ Len(after) = Len(before)
           /\ \A l \in 1..Len(before) :
                 IF LayerRole(before[l].name) \in DOMAIN psLast.asset
                 THEN after[l].src = <<LayerRole(before[l].name),
                                       psLast.asset[LayerRole(before[l].name)]>>
                 ELSE after[l].src = before[l].src

FullAssets   == {a \in Assets : DOMAIN a = Roles}
FullBgAssets == {a \in BgAssets : DOMAIN a = Roles \/ DOMAIN a = {}}

\* the update is of a document as create_new_psd builds it from asset A, with
\* an asset that differs from A in the file of the base role only
RoundTrip(A, bg) ==
    /\ psLast.op = "update"
    /\ psLast.editorUp
    /\ psLast.group = "content"
    /\ psLast.pre = NewDocument(A, bg)
    /\ DOMAIN psLast.asset = Roles
    /\ psLast.asset["base"] # A["base"]
    /\ psLast.asset["Ambient_Occlusion"] = A["Ambient_Occlusion"]
    /\ psLast.asset["Glare"] = A["Glare"]

\* C10: create_new_psd(A) with roles base, Ambient_Occlusion and Glare, then an
\* update of the content group with an asset that differs from A only in the
\* base file: the base layer is bound to the new base file, the ambient and
\* glare layers are bound as before, no layer is added or removed.
C10_RoundTrip ==
    \A A \in FullAssets, bg \in FullBgAssets :
        RoundTrip(A, bg) =>
            LET before == GroupOf(psLast.pre, "content").layers
                after  == GroupOf(psds[psLast.key], "content").layers
            IN  /\ psLast.result = "true"
                /\ [l \in 1..Len(after) |-> after[l].name] = <<"base", "ambient", "glare">>
                /\ [l \in 1..Len(before) |-> before[l].name] = <<"base", "ambient", "glare">>
                /\ after[1].src = <<"base", psLast.asset["base"]>>
                /\ after[1].src # before[1].src
                /\ after[2] = before[2]
                /\ after[3] = before[3]
                /\ Len(psds[psLast.key]) = Len(psLast.pre)
                /\ \A i \in 1..Len(psLast.pre) :
                      psLast.pre[i].name # "content" => psds[psLast.key][i] = psLast.pre[i]

\* C10 witness: such an update happened, on a document with a background group
C10_Witness ==
    \E A \in FullAssets, bg \in FullBgAssets :
        /\ RoundTrip(A, bg)
        /\ DOMAIN bg = Roles
        /\ psLast.result = "true"

\* C3: a copying step that finds its remote destination non-empty ends with
\* DestinationNotEmpty and leaves the destination as it was; the staged content
\* is copied only into an empty destination, which then holds exactly that content.
C3_CopyGuard ==
    /\ promoLast.step = "CopyPanos" =>
          IF promoLast.pre.vtour.panos.items # {}
          THEN promoLast.outcome = "DestinationNotEmpty" /\ vtour = promoLast.pre.vtour
          ELSE /\ promoLast.outcome = "ok"
               /\ vtour.panos = [exists |-> TRUE, items |-> {gen}]
    /\ promoLast.step = "CopyVtour" =>
          IF \/ promoLast.pre.vtour.files # {}
             \/ promoLast.pre.vtour.panos.exists
             \/ promoLast.pre.vtour.backup.exists
          THEN promoLast.outcome = "DestinationNotEmpty" /\ vtour = promoLast.pre.vtour
          ELSE /\ promoLast.outcome = "ok"
               /\ vtour.files = {gen}
               /\ vtour.panos = [exists |-> TRUE, items |-> {gen}]

\* C3 witness: the update flow's copy found the panos directory non-empty
C3_Witness ==
    /\ promoLast.step = "CopyPanos"
    /\ promoLast.pre.vtour.panos.items # {}
    /\ promoLast.outcome = "DestinationNotEmpty"

\* C4: in an update run, once the copy into the remote panos directory ended
\* with DestinationNotEmpty, neither the copy into the combined directory nor
\* the confirmation of the backup's deletion is run.
C4_AbortAfterGuard ==
    (flow = "update" /\ promoLast.copy = "DestinationNotEmpty") =>
        promoLast.step \notin {"CopyCombined", "Confirm"}

\* C5: a non-zero exit of the panorama tool ends the run in Failed with the
\* remote store as it was; the steps that change the remote store (backup,
\* copies, deletion of the backup) run only after a build that exited with 0,
\* and the steps up to the build change nothing on the remote store.
C5_BuildGate ==
    /\ buildExit \notin {-1, 0} =>
          /\ pc = "Failed"
          /\ tmp = "none"
          /\ promoLast.step \in {"Build", "RemoteStoreWrite"}
    /\ promoLast.step \in {"StartRun", "Stage", "Build"} => Remote = promoLast.pre
    /\ promoLast.step \in {"BackupPanos", "CopyPanos", "CopyVtour", "CopyCombined", "Confirm"}
          => buildExit = 0

\* C5 witness: an update run failed in the build while a live panos directory,
\* with content, was there to be backed up
C5_Witness ==
    /\ flow = "update"
    /\ promoLast.step = "Build"
    /\ buildExit = 1
    /\ pc = "Failed"
    /\ vtour.panos.exists
    /\ vtour.panos.items # {}

\* C6: after the backup step ran with a live panos directory present, whatever
\* the backup directory was before: the backup directory exists and holds
\* exactly what the live directory held, and the live directory exists and is empty.
C6_Backup ==
    (promoLast.step = "BackupPanos" /\ promoLast.pre.vtour.panos.exists) =>
        /\ promoLast.outcome = "ok"
        /\ vtour.backup.exists
        /\ vtour.backup.items = promoLast.pre.vtour.panos.items
        /\ vtour.panos.exists
        /\ vtour.panos.items = {}
        /\ pc = "Copying"

\* C6 witness: the backup step replaced an earlier backup of other content
C6_Witness ==
    /\ promoLast.step = "BackupPanos"
    /\ promoLast.pre.vtour.panos.exists
    /\ promoLast.pre.vtour.panos.items # {}
    /\ promoLast.pre.vtour.backup.exists
    /\ promoLast.pre.vtour.backup.items # {}
    /\ promoLast.pre.vtour.backup.items # promoLast.pre.vtour.panos.items

\* C7: the confirming step deletes the backup directory only on an explicit
\* confirmation; on every other answer, no answer included, the backup
\* directory and its content stay.
C7_ExplicitConfirmation ==
    (promoLast.step = "Confirm" /\ promoLast.resp \notin {"y", "Y"}) =>
        vtour.backup = promoLast.pre.vtour.backup

\* the layer names of an asset's roles, in insertion order
RoleLayers(asset) ==
    (IF "base" \in DOMAIN asset THEN <<"base">> ELSE <<>>)
    \o (IF "Ambient_Occlusion" \in DOMAIN asset THEN <<"ambient">> ELSE <<>>)
    \o (IF "Glare" \in DOMAIN asset THEN <<"glare">> ELSE <<>>)

LayerNames(group) == [i \in 1..Len(group.layers) |-> group.layers[i].name]

\* C15: with the editor reachable and no artifact of the key, create_new_psd
\* returns true for every asset with a base role, whichever overlays it has
\* (the background asset, when one is given, has a base role too): the saved
\* document has the group "background" (only when a background asset is
\* given) before the group "content", and each group has exactly one layer
\* per role of its asset, in the order base, ambient, glare.
C15_AnyOverlaySubset ==
    (/\ psLast.op = "create"
     /\ psLast.editorUp
     /\ psLast.pre = <<>>
     /\ "base" \in DOMAIN psLast.asset
     /\ (DOMAIN psLast.bg = {} \/ "base" \in DOMAIN psLast.bg)) =>
        LET doc == psds[psLast.key]
            n   == IF DOMAIN psLast.bg = {} THEN 1 ELSE 2
        IN  /\ psLast.result = "true"
            /\ Len(doc) = n
            /\ doc[n].name = "content"
            /\ LayerNames(doc[n]) = RoleLayers(psLast.asset)
            /\ n = 2 => /\ doc[1].name = "background"
                        /\ LayerNames(doc[1]) = RoleLayers(psLast.bg)

\* C16: every allocation of a run of renders on one date returns a directory
\* name that does not exist yet, so os.mkdir succeeds, and its version index
\* is greater than every index the date already has; also past index 9.
C16_CollisionFree ==
    lastAlloc.status \in {"ok", "FileExistsError"} =>
        /\ lastAlloc.out \notin lastAlloc.before
        /\ lastAlloc.status = "ok"
        /\ \A i \in SameDateIndices(lastAlloc.before, lastAlloc.date) :
               i < ParseInt(SubSeq(lastAlloc.out, 8, Len(lastAlloc.out)))

\* C17: in every state of an update run in which the question about the
\* backup has not been answered yet, runs that failed included, every file
\* the panos directory held when the run started is in the panos directory
\* or in the backup directory.
C17_NoLossBeforeConfirmation ==
    (/\ flow = "update"
     /\ promoLast.resp = "none"
     /\ promoLast.live0.exists) =>
        \A f \in promoLast.live0.items :
            \/ vtour.panos.exists /\ f \in vtour.panos.items
            \/ vtour.backup.exists /\ f \in vtour.backup.items

\* C17 witness: an update run waits for the answer; the files that were live
\* when it started are in the backup only, the panos directory holds the new
\* build
C17_Witness ==
    /\ flow = "update"
    /\ pc = "Confirming"
    /\ promoLast.resp = "none"
    /\ promoLast.live0.exists
    /\ promoLast.live0.items # {}
    /\ vtour.backup.exists
    /\ promoLast.live0.items \subseteq vtour.backup.items
    /\ vtour.panos.exists
    /\ promoLast.live0.items \cap vtour.panos.items = {}
    /\ vtour.panos.items # {}

\* C18: when the backup step of an update run finds no panos directory, it
\* ends without error, leaves an empty panos directory and no backup
\* directory, and the run goes on to copying.
C18_FirstTimeUpdate ==
    (/\ promoLast.step = "BackupPanos"
     /\ flow = "update"
     /\ ~promoLast.pre.vtour.panos.exists) =>
        /\ promoLast.outcome = "ok"
        /\ pc = "Copying"
        /\ vtour.panos.exists
        /\ vtour.panos.items = {}
        /\ vtour.backup = promoLast.pre.vtour.backup

\* the role the classification rule gives a file name: "base" for two
\* segments, the second segment when there are more and it is a known role,
\* no role (the empty string) otherwise
RuleRole(name) ==
    LET segments == Split(name)
    IN  IF Len(segments) = 2 THEN Chars("base")
        ELSE IF Len(segments) > 2 /\ segments[2] \in {Chars(l) : l \in LAYER}
        THEN segments[2]
        ELSE NoStr

\* C11: the mapping _get_rendered_imgs returns for the latest batch directory
\* has, for its non-hidden files, exactly these entries: a file of two
\* segments under role base and the key of its first segment, a file of more
\* segments whose second segment is a known role under that role and key;
\* every other file gives neither a key nor an entry.
C11_ClassifyRule ==
    (scan.status = "ok" /\ scan.path # NoStr) =>
        LET files   == {e \in rend.batches[scan.path] :
                           e.isFile /\ ~StartsWith(e.name, DotStr)}
            entered == {e \in files : RuleRole(e.name) # NoStr}
            of(k, r) == {e.name : e \in {x \in entered :
                            Split(x.name)[1] = k /\ RuleRole(x.name) = r}}
        IN  /\ DOMAIN scan.tree = {Split(e.name)[1] : e \in entered}
            /\ \A k \in DOMAIN scan.tree :
                  /\ DOMAIN scan.tree[k] =
                        {RuleRole(e.name) : e \in {x \in entered : Split(x.name)[1] = k}}
                  /\ \A r \in DOMAIN scan.tree[k] : scan.tree[k][r] \in of(k, r)

\* C12: _get_rendered_imgs never raises; for a missing renderings directory,
\* for one without a batch directory and for an empty latest batch directory
\* it returns the empty mapping.
C12_NeverFails ==
    scan.status # "none" =>
        /\ scan.status = "ok"
        /\ (\/ ~rend.exists
            \/ DOMAIN rend.batches = {}
            \/ scan.path # NoStr /\ rend.batches[scan.path] = {}) => scan.tree = <<>>

\* C13: once a create_new_psd call of a run has returned false, the run
\* makes no further create_new_psd call, for no key of the same carrier and
\* for no later carrier.
C13_StopsEntirely ==
    \A i, j \in DOMAIN calls : i < j => calls[i].result # "false"

\* C14: when the only failures of a finished run are refusals to overwrite
\* an existing artifact, create_new_psd has been called for every key of
\* every carrier's mapping, and every key whose artifact did not exist has
\* its artifact.
C14_ContinueAfterExists ==
    (/\ bpc = "done"
     /\ \A i \in DOMAIN calls :
           calls[i].result = "false" => calls[i].why = "ArtifactExists") =>
        \A c \in Carriers : \A k \in DOMAIN bRend[c] :
            /\ \E i \in DOMAIN calls : calls[i].carrier = c /\ calls[i].key = k
            /\ k \in bPsds[c]

====
